---- MODULE Spec2Model ----
(***************************************************************************)
(* ACPClient (agent connection and session protocol client) as a state     *)
(* machine.  Every action is one run-to-completion handler of the          *)
(* JavaScript event loop: a public method up to its first await, the       *)
(* continuation of an await, or a listener of the child process.           *)
(***************************************************************************)
EXTENDS Integers, Sequences, FiniteSets, TLC

\* connect() invocations that pass both precondition checks; the k-th such
\* invocation spawns (or tries to spawn) process k and owns handshake k.
MaxConnects == 2
\* newSession() requests sent to the agent.
MaxNewSessions == 2
\* Distinct availableCommands payloads the agent sends.
NumCmdLists == 1
\* setMode() / setModel() requests in flight at one time.
MaxPending == 1
\* Distinct mode ids and model ids a caller passes.
NumIds == 1
\* Diagnostic chunks fed to the chat view.
MaxChunks == 4
\* User messages sent through the chat view, and text chunks the agent emits.
MaxTurns == 2
MaxTextChunks == 2
\* Options of one permission request, and distinct option ids.
MaxOptions == 3
NumOptionIds == 2

Calls == 1..MaxConnects
Requests == 1..MaxNewSessions
\* Callbacks that may be handed to setOnStateChange / setOnSessionUpdate.
StateSubs == {1, 2}
UpdSubs == {1, 2}
\* Distinct availableCommands payloads and exit codes.
CmdLists == 1..NumCmdLists
\* newSession responses: without mode and model state, or with both (current id 1).
Responses == {[modes |-> 0, models |-> 0], [modes |-> 1, models |-> 1]}
\* A response with mode (model) state has current id 1; the ids a caller
\* passes to setMode and setModel are other ids.
Ids == 2..(NumIds + 1)
ExitCodes == {0, 1}

ACPConnectionState == {"disconnected", "connecting", "connected", "error"}

\* null of a nullable field
Null == 0

SessionMetadata(modes, models, commands) ==
  [exists |-> TRUE, modes |-> modes, models |-> models, commands |-> commands]

\* The session id the agent process `agent` returned for request n.
SessionId(n, agent) == [n |-> n, agent |-> agent]

\* null of currentSessionId
NoSession == [n |-> Null, agent |-> Null]

NoMetadata == [exists |-> FALSE, modes |-> Null, models |-> Null, commands |-> Null]

VARIABLES
  state,                  \* ACPClient.state
  process,                \* ACPClient.process: Null or the process held
  connection,             \* ACPClient.connection: Null or the connection over that process's pipes
  currentSessionId,       \* ACPClient.currentSessionId: NoSession or a session id
  sessionMetadata,        \* ACPClient.sessionMetadata
  pendingCommands,        \* ACPClient.pendingCommands: Null or a command list
  stateChangeListeners,   \* ACPClient.stateChangeListeners, in insertion order
  sessionUpdateListeners, \* ACPClient.sessionUpdateListeners, in insertion order
  proc,                   \* each child process: none, running, killed (exit pending), exited
  errored,                \* processes whose 'error' event has fired
  call,                   \* each connect() invocation: none, awaiting, returned, failed
  requests,               \* each newSession() request: none, awaiting (with its connection and the
                          \* last command list notified since it was sent), returned, failed
  reactive,               \* whether callback 1 calls dispose() when told "error"
  stepTrans,              \* the values state took during the last handler, in order
  stepSeen,               \* what each state-change callback was told during the last handler
  lastSeen,               \* the last value each state-change callback was told
  repeated,               \* callbacks told the same value twice in a row
  watch,                  \* per callback: what it was told so far during the connect() it saw start
  updDelivered,           \* callbacks the notification was delivered to, when the last handler was sessionUpdate
  updRaised,              \* whether that sessionUpdate rejected towards the agent
  pending,                \* the setSessionMode / setSessionModel requests awaiting their response
  sent,                   \* the request the last handler sent with a session id, if any
  lastOp,                 \* the handler that ran last and how it ended
  permission,             \* the last permission request and the response it got
  stderrBuffer,           \* ChatViewProvider.stderrBuffer
  diagnostic,             \* the last handleStderr: chunks fed so far, the buffer right after
                          \* the append, and the agentError texts it posted
  hasSession,             \* ChatViewProvider.hasSession
  streamingText,          \* ChatViewProvider.streamingText: the texts of the chunks, in order
  turns,                  \* each handleUserMessage: where it is suspended, the chunks that
                          \* arrived while its prompt was pending, and what it rendered
  owner,                  \* per newSession() request, the handler of the view that awaits it
  posted,                 \* the messages the last handler posted to the webview, in order
  emitted                 \* the text chunks the agent has emitted so far

\* The variables of the client's lifecycle and session handlers.
client == <<state, process, connection, currentSessionId, sessionMetadata,
            pendingCommands, stateChangeListeners, sessionUpdateListeners,
            proc, errored, call, requests, reactive,
            stepTrans, stepSeen, lastSeen, repeated, watch,
            updDelivered, updRaised, pending, sent, lastOp>>

\* The variables no lifecycle or session handler of the client writes.
\* The variables of the chat view but its diagnostic buffer.
view == <<hasSession, streamingText, turns, owner, posted, emitted>>

rest == <<permission, stderrBuffer, diagnostic, view>>

vars == <<client, rest>>

Range(s) == {s[i] : i \in 1..Len(s)}

NoWatch == [call |-> 0, start |-> "disconnected", log |-> <<>>]

Op(op, id, result) == [op |-> op, id |-> id, result |-> result]

RECURSIVE notify(_, _, _)
RECURSIVE setState(_, _)
RECURSIVE dispose(_)

\* The fields a handler reads and writes, at the start of a handler.
Here ==
  [state |-> state, process |-> process, connection |-> connection,
   currentSessionId |-> currentSessionId, sessionMetadata |-> sessionMetadata,
   pendingCommands |-> pendingCommands, proc |-> proc, call |-> call,
   stepTrans |-> <<>>, stepSeen |-> [cb \in StateSubs |-> <<>>],
   lastSeen |-> lastSeen, repeated |-> repeated, watch |-> watch]

\* The fields at the end of a handler.
Commit(w) ==
  /\ state' = w.state
  /\ process' = w.process
  /\ connection' = w.connection
  /\ currentSessionId' = w.currentSessionId
  /\ sessionMetadata' = w.sessionMetadata
  /\ pendingCommands' = w.pendingCommands
  /\ proc' = w.proc
  /\ call' = w.call
  /\ stepTrans' = w.stepTrans
  /\ stepSeen' = w.stepSeen
  /\ lastSeen' = w.lastSeen
  /\ repeated' = w.repeated
  /\ watch' = [cb \in StateSubs |->
                 IF w.watch[cb].call # 0 /\ w.call[w.watch[cb].call] = "awaiting"
                 THEN [w.watch[cb] EXCEPT !.log = @ \o w.stepSeen[cb]]
                 ELSE NoWatch]

\* cb(state): the callback is invoked with the new value.
told(w, cb, s) ==
  [w EXCEPT !.stepSeen[cb] = Append(@, s),
            !.repeated = IF w.lastSeen[cb] = s THEN @ \cup {cb} ELSE @,
            !.lastSeen[cb] = s]

\* What the callback does with the value: callback 1, when reactive, disposes
\* the client on "error"; every other callback only records the value.
callback(w, cb, s) ==
  IF reactive /\ cb = 1 /\ s = "error" THEN dispose(told(w, cb, s)) ELSE told(w, cb, s)

\* this.stateChangeListeners.forEach((cb) => cb(state)), from the i-th listener on
notify(w, i, s) ==
  IF i > Len(stateChangeListeners)
  THEN w
  ELSE notify(callback(w, stateChangeListeners[i], s), i + 1, s)

\* setState(state)
setState(w, s) ==
  IF w.state # s
  THEN notify([w EXCEPT !.state = s, !.stepTrans = Append(@, s)], 1, s)
  ELSE w

\* ChildProcess.kill(): the process is signalled; its 'exit' event comes later.
kill(w, p) ==
  [w EXCEPT !.proc[p] = IF @ = "running" THEN "killed" ELSE @]

\* A dispose() that forgets the session fields.
disposeKeepsSession(w) ==
  LET k == IF w.process # Null
           THEN [kill(w, w.process) EXCEPT !.process = Null]
           ELSE w
  IN setState([k EXCEPT !.connection = Null,
                        !.pendingCommands = Null],
              "disconnected")

\* dispose()
dispose(w) ==
  LET k == IF w.process # Null
           THEN [kill(w, w.process) EXCEPT !.process = Null]
           ELSE w
  IN setState([k EXCEPT !.connection = Null,
                        !.currentSessionId = NoSession,
                        !.sessionMetadata = NoMetadata,
                        !.pendingCommands = Null],
              "disconnected")

\* A request that carries the current session id.
Request(kind, id) == [kind |-> kind, id |-> id, session |-> currentSessionId]

NoRequest == [kind |-> "none", id |-> 0, session |-> NoSession]

\* The handler sends no request that carries a session id and settles none.
Idle == sent' = NoRequest /\ pending' = pending

\* The handler delivers no notification.
QuietUpdates == updDelivered' = {} /\ updRaised' = FALSE

\* A guard that forgets the handshake in progress.
connectRejectsOnlyConnected == state = "connected"

\* connect(): "Already connected or connecting"
connectRejects == state = "connected" \/ state = "connecting"

\* The k-th connect() that passes the checks is invocation k.
NextCall == CHOOSE c \in Calls : call[c] = "none" /\ \A d \in Calls : d < c => call[d] # "none"

\* The callbacks registered now start watching invocation c.
watching(w, c) ==
  [w EXCEPT !.watch = [cb \in StateSubs |->
                         IF cb \in Range(stateChangeListeners)
                         THEN [call |-> c, start |-> state, log |-> <<>>]
                         ELSE NoWatch]]

\* connect() up to its await: both checks, setState("connecting"), spawn, the
\* listeners, the connection object and the initialize request; when spawnFn
\* throws, the catch block.
Connect ==
  \/ /\ connectRejects
     /\ Commit(Here)
     /\ lastOp' = Op("connect", 0, "AlreadyActive")
     /\ UNCHANGED <<stateChangeListeners, sessionUpdateListeners, errored,
                    requests, reactive>>
     /\ QuietUpdates
     /\ Idle
     /\ UNCHANGED rest
  \/ /\ ~connectRejects
     /\ Commit(Here)
     /\ lastOp' = Op("connect", 0, "AgentUnavailable")
     /\ UNCHANGED <<stateChangeListeners, sessionUpdateListeners, errored,
                    requests, reactive>>
     /\ QuietUpdates
     /\ Idle
     /\ UNCHANGED rest
  \/ /\ ~connectRejects
     /\ \E c \in Calls : call[c] = "none"
     /\ \E spawned \in BOOLEAN :
          LET c == NextCall
              w1 == setState(watching([Here EXCEPT !.call[c] = "awaiting"], c), "connecting")
          IN IF spawned
             THEN /\ Commit([w1 EXCEPT !.process = c, !.proc[c] = "running",
                                       !.connection = c])
                  /\ lastOp' = Op("connect", c, "awaiting")
             ELSE /\ Commit([setState(w1, "error") EXCEPT !.call[c] = "failed"])
                  /\ lastOp' = Op("connect", c, "SpawnThrew")
     /\ UNCHANGED <<stateChangeListeners, sessionUpdateListeners, errored,
                    requests, reactive>>
     /\ QuietUpdates
     /\ Idle
     /\ UNCHANGED rest

\* The continuation of `await Promise.race(...)` when initPromise resolves.
HandshakeResolve(c) ==
  /\ call[c] = "awaiting"
  /\ proc[c] # "none"
  /\ Commit([setState(Here, "connected") EXCEPT !.call[c] = "returned"])
  /\ lastOp' = Op("handshakeResolve", c, "ok")
  /\ UNCHANGED <<stateChangeListeners, sessionUpdateListeners, errored,
                 requests, reactive>>
  /\ QuietUpdates
  /\ Idle
  /\ UNCHANGED rest

\* The catch block when initPromise rejects.
HandshakeReject(c) ==
  /\ call[c] = "awaiting"
  /\ proc[c] # "none"
  /\ Commit([setState(Here, "error") EXCEPT !.call[c] = "failed"])
  /\ lastOp' = Op("handshakeReject", c, "thrown")
  /\ UNCHANGED <<stateChangeListeners, sessionUpdateListeners, errored,
                 requests, reactive>>
  /\ QuietUpdates
  /\ Idle
  /\ UNCHANGED rest

\* A connect() that waits for the handshake alone.
spawnErrorNeverRejects(w, p) == w

\* spawnErrorPromise: the once("error") listener rejects it, and a connect()
\* of process p that is still awaiting the race runs its catch block.
spawnErrorPromise(w, p) ==
  IF w.call[p] = "awaiting"
  THEN [setState(w, "error") EXCEPT !.call[p] = "failed"]
  ELSE w

\* The 'error' event of process p: the on("error") listener, then the
\* once("error") listener, whose rejection wins the race of a connect() that
\* is still awaiting and runs its catch block.
ProcessError(p) ==
  /\ proc[p] \in {"running", "killed"}
  /\ p \notin errored
  /\ Commit(spawnErrorPromise(setState(Here, "error"), p))
  /\ errored' = errored \cup {p}
  /\ lastOp' = Op("error", p, IF call[p] = "awaiting" THEN "raised" ELSE "ok")
  /\ UNCHANGED <<stateChangeListeners, sessionUpdateListeners,
                 requests, reactive>>
  /\ QuietUpdates
  /\ Idle
  /\ UNCHANGED rest

\* An exit listener that forgets the connection.
exitKeepsConnection(w) ==
  [setState(w, "disconnected") EXCEPT !.process = Null]

\* The on("exit") listener.
exit(w) ==
  [setState(w, "disconnected") EXCEPT !.connection = Null, !.process = Null]

\* The 'exit' event of process p, with its exit code.
ProcessExit(p) ==
  /\ proc[p] \in {"running", "killed"}
  /\ \E code \in ExitCodes :
       /\ Commit(exit([Here EXCEPT !.proc[p] = "exited"]))
       /\ lastOp' = Op("exit", p, IF code = 0 THEN "clean" ELSE "crashed")
  /\ UNCHANGED <<stateChangeListeners, sessionUpdateListeners, errored,
                 requests, reactive>>
  /\ QuietUpdates
  /\ Idle
  /\ UNCHANGED rest

Dispose ==
  /\ Commit(dispose(Here))
  /\ lastOp' = Op("dispose", 0, IF lastOp.op = "dispose" THEN "again" ELSE "ok")
  /\ UNCHANGED <<stateChangeListeners, sessionUpdateListeners, errored,
                 requests, reactive>>
  /\ QuietUpdates
  /\ Idle
  /\ UNCHANGED rest

\* setAgent(config): agentConfig itself decides nothing modelled here.
SetAgent ==
  /\ Commit(IF state # "disconnected" THEN dispose(Here) ELSE Here)
  /\ lastOp' = Op("setAgent", 0, "ok")
  /\ UNCHANGED <<stateChangeListeners, sessionUpdateListeners, errored,
                 requests, reactive>>
  /\ QuietUpdates
  /\ Idle
  /\ UNCHANGED rest

\* setOnStateChange(callback): Set.add keeps insertion order and ignores a
\* callback that is already a member.
SetOnStateChange(cb) ==
  /\ cb \notin Range(stateChangeListeners)
  /\ stateChangeListeners' = Append(stateChangeListeners, cb)
  /\ Commit(Here)
  /\ lastOp' = Op("setOnStateChange", cb, "ok")
  /\ UNCHANGED <<sessionUpdateListeners, errored, requests, reactive>>
  /\ QuietUpdates
  /\ Idle
  /\ UNCHANGED rest

\* The function setOnStateChange returned: Set.delete.
Unsubscribe(cb) ==
  /\ cb \in Range(stateChangeListeners)
  /\ stateChangeListeners' = SelectSeq(stateChangeListeners, LAMBDA x : x # cb)
  /\ Commit([Here EXCEPT !.watch[cb] = NoWatch])
  /\ lastOp' = Op("unsubscribe", cb, "ok")
  /\ UNCHANGED <<sessionUpdateListeners, errored, requests, reactive>>
  /\ QuietUpdates
  /\ Idle
  /\ UNCHANGED rest

\* setOnSessionUpdate(callback)
SetOnSessionUpdate(cb) ==
  /\ cb \notin Range(sessionUpdateListeners)
  /\ sessionUpdateListeners' = Append(sessionUpdateListeners, cb)
  /\ Commit(Here)
  /\ lastOp' = Op("setOnSessionUpdate", cb, "ok")
  /\ UNCHANGED <<stateChangeListeners, errored, requests, reactive>>
  /\ QuietUpdates
  /\ Idle
  /\ UNCHANGED rest

\* The k-th newSession() that passes the check sends request k; the agent
\* answers it with session id k.
NextRequest ==
  CHOOSE r \in Requests :
    requests[r].st = "none" /\ \A q \in Requests : q < r => requests[q].st # "none"

\* newSession(): "Not connected"
newSessionRejects == connection = Null

\* newSession(workingDirectory) up to its await.
NewSession ==
  \/ /\ newSessionRejects
     /\ Commit(Here)
     /\ lastOp' = Op("newSession", 0, "NotConnected")
     /\ UNCHANGED <<stateChangeListeners, sessionUpdateListeners, errored,
                    requests, reactive>>
     /\ QuietUpdates
     /\ Idle
     /\ UNCHANGED rest
  \/ /\ ~newSessionRejects
     /\ \E r \in Requests : requests[r].st = "none"
     /\ requests' = [requests EXCEPT ![NextRequest] =
                       [st |-> "awaiting", conn |-> connection, cmds |-> Null]]
     /\ Commit(Here)
     /\ lastOp' = Op("newSession", NextRequest, "awaiting")
     /\ UNCHANGED <<stateChangeListeners, sessionUpdateListeners, errored, reactive>>
     /\ QuietUpdates
     /\ Idle
     /\ UNCHANGED rest

\* The continuation of `await this.connection.newSession(...)`.
installSession(w, r, modes, models) ==
  [w EXCEPT !.currentSessionId = SessionId(r, requests[r].conn),
            !.sessionMetadata = SessionMetadata(modes, models, w.pendingCommands),
            !.pendingCommands = Null]

\* The agent's response to request r arrives.
NewSessionResolve(r) ==
  /\ requests[r].st = "awaiting"
  /\ \E resp \in Responses :
       Commit(installSession(Here, r, resp.modes, resp.models))
  /\ requests' = [requests EXCEPT ![r] = [st |-> "returned", conn |-> Null, cmds |-> Null]]
  /\ lastOp' = Op("newSessionResolve", r, "ok")
  /\ UNCHANGED <<stateChangeListeners, sessionUpdateListeners, errored, reactive>>
  /\ QuietUpdates
  /\ Idle
  /\ UNCHANGED rest

\* Request r fails: the await throws and newSession() rejects.
NewSessionReject(r) ==
  /\ requests[r].st = "awaiting"
  /\ requests' = [requests EXCEPT ![r] = [st |-> "failed", conn |-> Null, cmds |-> Null]]
  /\ Commit(Here)
  /\ lastOp' = Op("newSessionReject", r, "thrown")
  /\ UNCHANGED <<stateChangeListeners, sessionUpdateListeners, errored, reactive>>
  /\ QuietUpdates
  /\ Idle
  /\ UNCHANGED rest

\* if (this.sessionMetadata) ... else this.pendingCommands = ...
storeCommands(w, cmds) ==
  IF w.sessionMetadata.exists
  THEN [w EXCEPT !.sessionMetadata.commands = cmds]
  ELSE [w EXCEPT !.pendingCommands = cmds]

\* try { this.sessionUpdateListeners.forEach((cb) => cb(params)) } catch:
\* the callbacks invoked when callback `thrower` raises (0: none raises).
delivered(thrower) ==
  {sessionUpdateListeners[i] : i \in
     {j \in 1..Len(sessionUpdateListeners) :
        \A k \in 1..(j - 1) : sessionUpdateListeners[k] # thrower}}

\* client.sessionUpdate(params): a notification from the agent process p.
SessionUpdate(p) ==
  /\ proc[p] \in {"running", "killed"}
  /\ \E cmds \in CmdLists \cup {Null}, thrower \in UpdSubs \cup {0} :
       /\ IF cmds # Null
          THEN /\ Commit(storeCommands(Here, cmds))
               /\ requests' = [r \in Requests |->
                                 IF requests[r].st = "awaiting" /\ requests[r].conn = p
                                 THEN [requests[r] EXCEPT !.cmds = cmds]
                                 ELSE requests[r]]
               /\ lastOp' = Op("sessionUpdate", 0, "available_commands_update")
          ELSE /\ Commit(Here)
               /\ requests' = requests
               /\ lastOp' = Op("sessionUpdate", 0, "agent_message_chunk")
       /\ updDelivered' = delivered(thrower)
       /\ updRaised' = FALSE
  /\ UNCHANGED <<stateChangeListeners, sessionUpdateListeners, errored, reactive>>
  /\ Idle
  /\ UNCHANGED rest

\* A guard that looks at the connection only.
noActiveSessionUnconnected == connection = Null

\* setMode(), setModel(), sendMessage(), cancel(): no active session
noActiveSession == connection = Null \/ currentSessionId = NoSession

\* A method that finds no active session: `rejects` says whether it throws
\* "No active session" or returns.
refused(op, rejects) ==
  /\ Commit(Here)
  /\ lastOp' = Op(op, 0, IF rejects THEN "NoActiveSession" ELSE "returned")
  /\ Idle
  /\ UNCHANGED rest
  /\ UNCHANGED <<stateChangeListeners, sessionUpdateListeners, errored,
                 requests, reactive>>
  /\ QuietUpdates

\* A method up to its await: the request goes out with the current session id.
issued(op, id, awaited) ==
  /\ Commit(Here)
  /\ lastOp' = Op(op, id, "awaiting")
  /\ sent' = Request(op, id)
  /\ pending' = IF awaited THEN pending \cup {Request(op, id)} ELSE pending
  /\ UNCHANGED <<stateChangeListeners, sessionUpdateListeners, errored,
                 requests, reactive>>
  /\ QuietUpdates
  /\ UNCHANGED rest

\* setMode(modeId) up to its await.
SetMode(m) ==
  \/ noActiveSession /\ refused("setMode", TRUE)
  \/ /\ ~noActiveSession
     /\ Cardinality(pending) < MaxPending
     /\ Request("setMode", m) \notin pending
     /\ issued("setMode", m, TRUE)

\* setModel(modelId) up to its await.
SetModel(m) ==
  \/ noActiveSession /\ refused("setModel", TRUE)
  \/ /\ ~noActiveSession
     /\ Cardinality(pending) < MaxPending
     /\ Request("setModel", m) \notin pending
     /\ issued("setModel", m, TRUE)

\* sendMessage(message): the continuation of its await logs the response and
\* returns it, or logs the error and rethrows it, and writes no field.
SendMessage ==
  \/ noActiveSession /\ refused("sendMessage", TRUE)
  \/ ~noActiveSession /\ issued("sendMessage", 0, FALSE)

\* cancel(): the continuation of its await returns.
Cancel ==
  \/ noActiveSession /\ refused("cancel", FALSE)
  \/ ~noActiveSession /\ issued("cancel", 0, FALSE)

\* if (this.sessionMetadata?.modes) this.sessionMetadata.modes.currentModeId = modeId,
\* and the same for models.
setCurrent(w, q) ==
  IF q.kind = "setMode"
  THEN IF w.sessionMetadata.exists /\ w.sessionMetadata.modes # Null
       THEN [w EXCEPT !.sessionMetadata.modes = q.id]
       ELSE w
  ELSE IF w.sessionMetadata.exists /\ w.sessionMetadata.models # Null
       THEN [w EXCEPT !.sessionMetadata.models = q.id]
       ELSE w

\* The agent's response to the setSessionMode / setSessionModel request q.
SetResolve(q) ==
  /\ q \in pending
  /\ Commit(setCurrent(Here, q))
  /\ pending' = pending \ {q}
  /\ sent' = NoRequest
  /\ lastOp' = Op(q.kind, q.id, "ok")
  /\ UNCHANGED <<stateChangeListeners, sessionUpdateListeners, errored,
                 requests, reactive>>
  /\ QuietUpdates
  /\ UNCHANGED rest

\* Request q fails: the await throws and setMode() / setModel() rejects.
SetReject(q) ==
  /\ q \in pending
  /\ Commit(Here)
  /\ pending' = pending \ {q}
  /\ sent' = NoRequest
  /\ lastOp' = Op(q.kind, q.id, "thrown")
  /\ UNCHANGED <<stateChangeListeners, sessionUpdateListeners, errored,
                 requests, reactive>>
  /\ QuietUpdates
  /\ UNCHANGED rest

\* The kinds of a permission option, and the option descriptors.
PermissionOptionKind == {"allow_once", "allow_always", "reject_once", "reject_always"}

PermissionOption == [kind : PermissionOptionKind, optionId : 1..NumOptionIds]

\* params.options of a request: any list of at most MaxOptions options.
OptionLists == UNION {[1..n -> PermissionOption] : n \in 0..MaxOptions}

\* A find that accepts a one-time allow only.
RECURSIVE allowOnceOption(_, _)
allowOnceOption(options, i) ==
  IF i > Len(options) THEN 0
  ELSE IF options[i].kind = "allow_once" THEN i
  ELSE allowOnceOption(options, i + 1)

\* params.options.find(...): the index of the first option from i on whose
\* kind is allow_once or allow_always, 0 when find returns undefined.
RECURSIVE allowOption(_, _)
allowOption(options, i) ==
  IF i > Len(options) THEN 0
  ELSE IF options[i].kind = "allow_once" \/ options[i].kind = "allow_always" THEN i
  ELSE allowOption(options, i + 1)

\* client.requestPermission(params)
requestPermission(options) ==
  LET found == allowOption(options, 1)
  IN IF found # 0
     THEN [outcome |-> "selected", optionId |-> options[found].optionId]
     ELSE [outcome |-> "cancelled", optionId |-> Null]

NoPermission == [options |-> <<>>, response |-> [outcome |-> "none", optionId |-> Null]]

\* Text is a sequence of runs [c, n]: the character c, n times.  Every
\* character of the model's alphabet but the filler "." stands alone (n = 1).
\* The filler is no word character, no white space, no brace and no quote, so
\* a pattern treats a run of it as it treats a single such character.
Str(t) == [i \in 1..Len(t) |-> [c |-> t[i], n |-> 1]]

Fill(n) == <<[c |-> ".", n |-> n]>>

WhiteSpace == {" ", "\n"}

Punctuation == {":", "{", "}", "\"", ",", "/", "."}

\* \s and \w on the alphabet: every other character is a letter.
isSpace(x) == x.c \in WhiteSpace

isWord(x) == x.c \notin (WhiteSpace \cup Punctuation)

\* The literals of the two patterns and of the two messages.
ErrorLit == <<"E", "r", "r", "o", "r">>

DataLit == <<"d", "a", "t", "a", ":">>

ProviderLit == <<"p", "r", "o", "v", "i", "d", "e", "r", "I", "D", ":">>

ModelLit == <<"m", "o", "d", "e", "l", "I", "D", ":">>

ModelNotFoundLit == <<"M", "o", "d", "e", "l", " ", "n", "o", "t", " ", "f", "o", "u", "n", "d", ":", " ">>

AgentErrorLit == <<"A", "g", "e", "n", "t", " ", "e", "r", "r", "o", "r", ":", " ">>

\* The chunks the agent's stderr delivers.
Chunks ==
  { Str(<<"F", "o", "o", "E", "r", "r", "o", "r", ":">>),
    Str(<<"B", "a", "r", "E", "r", "r", "o", "r", ":", " ", "d", "a", "t", "a", ":", " ", "{">>),
    Str(<<"\n", " ", "d", "a", "t", "a", ":", " ", "{">>),
    Str(<<"p", "r", "o", "v", "i", "d", "e", "r", "I", "D", ":", " ", "\"", "a", "\"">>),
    Str(<<",", " ", "m", "o", "d", "e", "l", "I", "D", ":", " ", "\"", "x", "\"", "}">>),
    Str(<<"}">>),
    Str(<<"b", "a", "r">>),
    Fill(5000),
    Fill(4994) \o Str(<<"}">>) }

\* The bounds of the buffer: above StderrCap characters, the trailing
\* StderrKeep are kept.
StderrCap == 10000

StderrKeep == 5000

\* string.length
RECURSIVE length(_)
length(b) == IF b = <<>> THEN 0 ELSE b[Len(b)].n + length(SubSeq(b, 1, Len(b) - 1))

\* a + b
concat(a, b) ==
  IF a # <<>> /\ b # <<>> /\ a[Len(a)].c = "." /\ b[1].c = "."
  THEN SubSeq(a, 1, Len(a) - 1) \o <<[c |-> ".", n |-> a[Len(a)].n + b[1].n]>>
         \o SubSeq(b, 2, Len(b))
  ELSE a \o b

\* string.slice(-k): the trailing k characters, the whole string when shorter.
RECURSIVE slice(_, _)
slice(b, k) ==
  IF k = 0 \/ b = <<>> THEN <<>>
  ELSE LET x == b[Len(b)]
       IN IF x.n >= k
          THEN <<[c |-> x.c, n |-> k]>>
          ELSE slice(SubSeq(b, 1, Len(b) - 1), k - x.n) \o <<x>>

Min(S) == CHOOSE x \in S : \A y \in S : x <= y

\* Whether the literal stands in b at index j.
at(b, j, lit) ==
  /\ j >= 1
  /\ j + Len(lit) - 1 <= Len(b)
  /\ \A k \in 1..Len(lit) : b[j + k - 1] = [c |-> lit[k], n |-> 1]

\* \s* and \w* from index j (at most Len(b) + 1): the index they stop at.
skipSpace(b, j) == Min({k \in j..(Len(b) + 1) : k = Len(b) + 1 \/ ~isSpace(b[k])})

skipWord(b, j) == Min({k \in j..(Len(b) + 1) : k = Len(b) + 1 \/ ~isWord(b[k])})

\* \s*(\w+)?\s*\n?\s*data: from index j: the index behind "data:", or 0.
\* The word is absent, or it ends right before "data:", or white space
\* separates it from "data:".
dataFrom(b, j) ==
  LET j1 == skipSpace(b, j)
      k == skipWord(b, j1)
      j2 == skipSpace(b, k)
  IN IF at(b, j1, DataLit) THEN j1 + Len(DataLit)
     ELSE IF k - 4 > j1 /\ at(b, k - 4, DataLit) THEN k + 1
     ELSE IF k > j1 /\ at(b, j2, DataLit) THEN j2 + Len(DataLit)
     ELSE 0

NoBlock == [found |-> FALSE, open |-> 0, close |-> 0]

\* :\s*(\w+)?\s*\n?\s*data:\s*\{([^}]+)\} behind an "Error" that ends at
\* index e: the indices of the braces.
blockFrom(b, e) ==
  IF e + 1 > Len(b) \/ b[e + 1].c # ":" THEN NoBlock
  ELSE LET d == dataFrom(b, e + 2)
       IN IF d = 0 THEN NoBlock
          ELSE LET o == skipSpace(b, d)
                   closes == {k \in (o + 1)..Len(b) : b[k].c = "}"}
               IN IF o > Len(b) THEN NoBlock
                  ELSE IF b[o].c # "{" THEN NoBlock
                  ELSE IF closes = {} THEN NoBlock
                  ELSE IF Min(closes) = o + 1 THEN NoBlock
                  ELSE [found |-> TRUE, open |-> o, close |-> Min(closes)]

NoMatch == [found |-> FALSE, type |-> <<>>, data |-> <<>>]

\* stderrBuffer.match(/(\w+Error):\s*(\w+)?\s*\n?\s*data:\s*\{([^}]+)\}/):
\* the leftmost match, with groups 1 and 3.  A match starts at the start of a
\* run of word characters that ends in "Error" with at least one character
\* before it.
errorMatch(b) ==
  LET ends == {e \in 6..Len(b) :
                 at(b, e - 4, ErrorLit) /\ isWord(b[e - 5]) /\ blockFrom(b, e).found}
  IN IF ends = {} THEN NoMatch
     ELSE LET e == Min(ends)
              start == Min({i \in 1..(e - 5) : \A k \in i..(e - 5) : isWord(b[k])})
              block == blockFrom(b, e)
          IN [found |-> TRUE, type |-> SubSeq(b, start, e),
              data |-> SubSeq(b, block.open + 1, block.close - 1)]

\* The index behind the opening quote and the index of the closing quote of
\* lit\s*"([^"]+)" when lit stands at index i of data.
quoted(data, i, lit) ==
  LET q == skipSpace(data, i + Len(lit))
      quotes == {r \in (q + 1)..Len(data) : data[r].c = "\""}
  IN IF ~at(data, i, lit) THEN <<0, 0>>
     ELSE IF q > Len(data) THEN <<0, 0>>
     ELSE IF data[q].c # "\"" THEN <<0, 0>>
     ELSE IF quotes = {} THEN <<0, 0>>
     ELSE IF Min(quotes) = q + 1 THEN <<0, 0>>
     ELSE <<q + 1, Min(quotes)>>

\* errorData.match(/providerID:\s*"([^"]+)"/) and the same for modelID:
\* group 1 of the leftmost match, <<>> when there is none.
fieldMatch(data, lit) ==
  LET starts == {i \in 1..Len(data) : quoted(data, i, lit)[1] # 0}
  IN IF starts = {} THEN <<>>
     ELSE LET v == quoted(data, Min(starts), lit)
          IN SubSeq(data, v[1], v[2] - 1)

\* A message that never names the model.
messageOfTypeOnly(m) == Str(AgentErrorLit) \o m.type

\* The text of the agentError message.
message(m) ==
  LET providerMatch == fieldMatch(m.data, ProviderLit)
      modelMatch == fieldMatch(m.data, ModelLit)
  IN IF providerMatch # <<>> /\ modelMatch # <<>>
     THEN Str(ModelNotFoundLit) \o providerMatch \o Str(<<"/">>) \o modelMatch
     ELSE Str(AgentErrorLit) \o m.type

\* A buffer that is never cut.
cappedNever(b) == b

\* if (this.stderrBuffer.length > 10000) this.stderrBuffer = this.stderrBuffer.slice(-5000)
capped(b) == IF length(b) > StderrCap THEN slice(b, StderrKeep) ELSE b

NoDiagnostic == [n |-> 0, appended |-> <<>>, posted |-> <<>>]

\* handleStderr(text), the callback given to setOnStderr.
handleStderr(text) ==
  LET appended == concat(stderrBuffer, text)
      m == errorMatch(appended)
  IN /\ stderrBuffer' = capped(IF m.found THEN <<>> ELSE appended)
     /\ diagnostic' = [n |-> diagnostic.n + 1, appended |-> appended,
                       posted |-> IF m.found THEN <<message(m)>> ELSE <<>>]

\* The agent's stderr delivers a chunk.
Stderr ==
  /\ diagnostic.n < MaxChunks
  /\ \E text \in Chunks : handleStderr(text)
  /\ UNCHANGED <<client, permission, view>>

\* A permission request from the agent: the resolver answers in the same turn.
RequestPermission ==
  /\ \E options \in OptionLists :
       permission' = [options |-> options, response |-> requestPermission(options)]
  /\ UNCHANGED <<client, stderrBuffer, diagnostic, view>>

Turns == 1..MaxTurns

\* A handleUserMessage that has not started.
NoTurn == [at |-> "none", on |-> 0, heard |-> <<>>, html |-> <<>>, stopReason |-> "none"]

\* A message to the webview; its text is a sequence of chunk texts.
Message(type, text) == [type |-> type, text |-> text]

\* The fields of the client and of the view at the start of a handler of the
\* view; ret and id carry the outcome of the client method called last.
HereView ==
  [c |-> Here, requests |-> requests, sent |-> NoRequest,
   hasSession |-> hasSession, streamingText |-> streamingText,
   stderrBuffer |-> stderrBuffer, turns |-> turns, owner |-> owner,
   posted |-> <<>>, ret |-> "none", id |-> 0]

\* The fields at the end of a handler of the view.
CommitView(w) ==
  /\ Commit(w.c)
  /\ requests' = w.requests
  /\ sent' = w.sent
  /\ hasSession' = w.hasSession
  /\ streamingText' = w.streamingText
  /\ stderrBuffer' = w.stderrBuffer
  /\ turns' = w.turns
  /\ owner' = w.owner
  /\ posted' = w.posted
  /\ UNCHANGED <<stateChangeListeners, sessionUpdateListeners, reactive,
                 pending, permission, diagnostic>>

\* this.postMessage(message)
postMessage(w, type, text) == [w EXCEPT !.posted = Append(@, Message(type, text))]

\* acpClient.connect() up to its await, as the view calls it: the agent is
\* not installed, spawnFn throws, or the process is spawned.
connect(w, how) ==
  IF w.c.state = "connected" \/ w.c.state = "connecting"
  THEN [w EXCEPT !.ret = "AlreadyActive"]
  ELSE IF how = "unavailable"
  THEN [w EXCEPT !.ret = "AgentUnavailable"]
  ELSE LET c == NextCall
           w1 == setState(watching([w.c EXCEPT !.call[c] = "awaiting"], c), "connecting")
       IN IF how = "throws"
          THEN [w EXCEPT !.c = [setState(w1, "error") EXCEPT !.call[c] = "failed"],
                         !.ret = "SpawnThrew"]
          ELSE [w EXCEPT !.c = [w1 EXCEPT !.process = c, !.proc[c] = "running",
                                          !.connection = c],
                         !.ret = "awaiting", !.id = c]

\* acpClient.newSession(workingDir) up to its await, on behalf of a handler.
newSession(w, handler) ==
  IF w.c.connection = Null
  THEN [w EXCEPT !.ret = "NotConnected"]
  ELSE LET r == NextRequest
       IN [w EXCEPT !.requests[r] = [st |-> "awaiting", conn |-> w.c.connection,
                                     cmds |-> Null],
                    !.owner[r] = handler,
                    !.ret = "awaiting", !.id = r]

\* acpClient.sendMessage(text) up to its await.
sendMessage(w) ==
  IF w.c.connection = Null \/ w.c.currentSessionId = NoSession
  THEN [w EXCEPT !.ret = "NoActiveSession"]
  ELSE [w EXCEPT !.ret = "awaiting",
                 !.sent = [kind |-> "sendMessage", id |-> 0,
                           session |-> w.c.currentSessionId]]

\* handleUserMessage: the catch block.
caught(w, t) ==
  LET w1 == postMessage(postMessage(w, "error", <<>>), "streamEnd", <<>>)
  IN [w1 EXCEPT !.streamingText = <<>>, !.stderrBuffer = <<>>,
                !.turns[t].at = "done", !.turns[t].stopReason = "error"]

\* handleUserMessage from the reset of the accumulator to the await of
\* sendMessage.
prompt(w, t) ==
  LET w1 == postMessage([w EXCEPT !.streamingText = <<>>, !.stderrBuffer = <<>>],
                        "streamStart", <<>>)
      w2 == sendMessage(w1)
  IN IF w2.ret = "awaiting"
     THEN [w2 EXCEPT !.turns[t].at = "prompt", !.turns[t].on = 0]
     ELSE caught(w2, t)

\* handleUserMessage from the test of hasSession on.
session(w, t) ==
  IF ~w.hasSession
  THEN LET w1 == newSession(w, "userMessage")
       IN IF w1.ret = "awaiting"
          THEN [w1 EXCEPT !.turns[t].at = "session", !.turns[t].on = w1.id]
          ELSE caught(w1, t)
  ELSE prompt(w, t)

\* handleUserMessage behind the await of newSession.
sessionCreated(w, t) ==
  prompt(postMessage([w EXCEPT !.hasSession = TRUE], "sessionMetadata", <<>>), t)

NextTurn ==
  CHOOSE t \in Turns : turns[t].at = "none" /\ \A u \in Turns : u < t => turns[u].at # "none"

\* The handler changes no listener-side bookkeeping of a notification.
QuietView ==
  /\ QuietUpdates
  /\ emitted' = emitted
  /\ errored' = errored

\* handleUserMessage(text) up to its first await.
UserMessage ==
  /\ \E t \in Turns : turns[t].at = "none"
  /\ \E c \in Calls : call[c] = "none"
  /\ \E r \in Requests : requests[r].st = "none"
  /\ \E how \in {"unavailable", "throws", "spawns"} :
       LET t == NextTurn
           w == postMessage(HereView, "userMessage", <<>>)
           w1 == connect(w, how)
       IN /\ state = "connected" => how = "spawns"
          /\ CommitView(IF state = "connected" THEN session(w, t)
                        ELSE IF w1.ret = "awaiting"
                        THEN [w1 EXCEPT !.turns[t].at = "connect", !.turns[t].on = w1.id]
                        ELSE caught(w1, t))
          /\ lastOp' = Op("userMessage", t, "ok")
  /\ QuietView

\* The turn suspended at the await of connect() invocation c, 0 if none.
turnOfCall(c) ==
  IF \E t \in Turns : turns[t].at = "connect" /\ turns[t].on = c
  THEN CHOOSE t \in Turns : turns[t].at = "connect" /\ turns[t].on = c
  ELSE 0

\* The turn suspended at the await of newSession() request r, 0 if none.
turnOfRequest(r) ==
  IF \E t \in Turns : turns[t].at = "session" /\ turns[t].on = r
  THEN CHOOSE t \in Turns : turns[t].at = "session" /\ turns[t].on = r
  ELSE 0

\* The handshake of invocation c is answered: connect() returns and the
\* handler that awaits it goes on.
ViewHandshakeResolve(c) ==
  /\ call[c] = "awaiting"
  /\ proc[c] # "none"
  /\ \E r \in Requests : requests[r].st = "none"
  /\ LET w == [HereView EXCEPT !.c = [setState(Here, "connected") EXCEPT !.call[c] = "returned"]]
     IN CommitView(IF turnOfCall(c) # 0 THEN session(w, turnOfCall(c)) ELSE w)
  /\ lastOp' = Op("handshakeResolve", c, "ok")
  /\ QuietView

\* The handshake of invocation c fails: connect() rejects into the catch
\* block of the handler that awaits it.
ViewHandshakeReject(c) ==
  /\ call[c] = "awaiting"
  /\ proc[c] # "none"
  /\ LET w == [HereView EXCEPT !.c = [setState(Here, "error") EXCEPT !.call[c] = "failed"]]
     IN CommitView(IF turnOfCall(c) # 0 THEN caught(w, turnOfCall(c)) ELSE w)
  /\ lastOp' = Op("handshakeReject", c, "thrown")
  /\ QuietView

\* The 'error' event of process p.
ViewProcessError(p) ==
  /\ proc[p] \in {"running", "killed"}
  /\ p \notin errored
  /\ LET w == [HereView EXCEPT !.c = spawnErrorPromise(setState(Here, "error"), p)]
     IN CommitView(IF call[p] = "awaiting" /\ turnOfCall(p) # 0
                   THEN caught(w, turnOfCall(p)) ELSE w)
  /\ errored' = errored \cup {p}
  /\ lastOp' = Op("error", p, IF call[p] = "awaiting" THEN "raised" ELSE "ok")
  /\ QuietUpdates
  /\ emitted' = emitted

\* The 'exit' event of process p.
ViewProcessExit(p) ==
  /\ proc[p] \in {"running", "killed"}
  /\ CommitView([HereView EXCEPT !.c = exit([Here EXCEPT !.proc[p] = "exited"])])
  /\ lastOp' = Op("exit", p, "clean")
  /\ QuietView

\* The agent answers newSession() request r: newSession() returns and the
\* handler that awaits it goes on.
ViewNewSessionResolve(r) ==
  /\ requests[r].st = "awaiting"
  /\ \E resp \in Responses :
       LET w == [HereView EXCEPT
                   !.c = installSession(Here, r, resp.modes, resp.models),
                   !.requests[r] = [st |-> "returned", conn |-> Null, cmds |-> Null],
                   !.owner[r] = "none"]
       IN CommitView(IF owner[r] = "userMessage"
                     THEN sessionCreated(w, turnOfRequest(r))
                     ELSE postMessage([w EXCEPT !.hasSession = TRUE],
                                      "sessionMetadata", <<>>))
  /\ lastOp' = Op("newSessionResolve", r, "ok")
  /\ QuietView

\* newSession() request r fails: handleUserMessage runs its catch block,
\* handleNewChat logs the error.
ViewNewSessionReject(r) ==
  /\ requests[r].st = "awaiting"
  /\ LET w == [HereView EXCEPT
                 !.requests[r] = [st |-> "failed", conn |-> Null, cmds |-> Null],
                 !.owner[r] = "none"]
     IN CommitView(IF owner[r] = "userMessage" THEN caught(w, turnOfRequest(r)) ELSE w)
  /\ lastOp' = Op("newSessionReject", r, "thrown")
  /\ QuietView

\* handleUserMessage behind the await of sendMessage: the response arrived.
PromptResolve(t) ==
  /\ turns[t].at = "prompt"
  /\ LET w == [HereView EXCEPT !.turns[t].at = "done", !.turns[t].html = streamingText,
                               !.streamingText = <<>>]
     IN CommitView(IF streamingText = <<>>
                   THEN postMessage(postMessage([w EXCEPT !.turns[t].stopReason = "error"],
                                                "error", <<>>), "streamEnd", <<>>)
                   ELSE postMessage([w EXCEPT !.turns[t].stopReason = "end_turn"],
                                    "streamEnd", streamingText))
  /\ lastOp' = Op("promptResolve", t, "ok")
  /\ QuietView

\* The prompt fails: sendMessage rethrows into the catch block.
PromptReject(t) ==
  /\ turns[t].at = "prompt"
  /\ CommitView(caught(HereView, t))
  /\ lastOp' = Op("promptReject", t, "thrown")
  /\ QuietView

\* handleNewChat() up to its await.
NewChat ==
  /\ \E r \in Requests : requests[r].st = "none"
  /\ LET w == postMessage(postMessage([HereView EXCEPT !.hasSession = FALSE,
                                                       !.streamingText = <<>>],
                                      "chatCleared", <<>>), "sessionMetadata", <<>>)
     IN CommitView(IF state = "connected" THEN newSession(w, "newChat") ELSE w)
  /\ lastOp' = Op("newChat", 0, "ok")
  /\ QuietView

\* handleSessionUpdate(notification) for an agent_message_chunk with text.
handleSessionUpdate(w, text) ==
  postMessage([w EXCEPT !.streamingText = Append(@, text)], "streamChunk", <<text>>)

\* client.sessionUpdate(params) for the text chunk the agent process p emits
\* next: the callback of the view is the only one registered.
TextChunk(p) ==
  /\ proc[p] \in {"running", "killed"}
  /\ emitted < MaxTextChunks
  /\ emitted' = emitted + 1
  /\ LET w == handleSessionUpdate(HereView, emitted + 1)
     IN CommitView([w EXCEPT !.turns = [t \in Turns |->
                                          IF turns[t].at = "prompt"
                                          THEN [turns[t] EXCEPT !.heard = Append(@, emitted + 1)]
                                          ELSE turns[t]]])
  /\ updDelivered' = Range(sessionUpdateListeners)
  /\ updRaised' = FALSE
  /\ errored' = errored
  /\ lastOp' = Op("sessionUpdate", emitted + 1, "agent_message_chunk")

InitCommon ==
  /\ state = "disconnected"
  /\ process = Null
  /\ connection = Null
  /\ currentSessionId = NoSession
  /\ sessionMetadata = NoMetadata
  /\ pendingCommands = Null
  /\ proc = [p \in Calls |-> "none"]
  /\ errored = {}
  /\ call = [c \in Calls |-> "none"]
  /\ requests = [r \in Requests |-> [st |-> "none", conn |-> Null, cmds |-> Null]]
  /\ stepTrans = <<>>
  /\ stepSeen = [cb \in StateSubs |-> <<>>]
  /\ lastSeen = [cb \in StateSubs |-> "none"]
  /\ repeated = {}
  /\ watch = [cb \in StateSubs |-> NoWatch]
  /\ updDelivered = {}
  /\ updRaised = FALSE
  /\ pending = {}
  /\ sent = NoRequest
  /\ lastOp = Op("new", 0, "ok")
  /\ permission = NoPermission
  /\ stderrBuffer = <<>>
  /\ diagnostic = NoDiagnostic
  /\ hasSession = FALSE
  /\ streamingText = <<>>
  /\ turns = [t \in Turns |-> NoTurn]
  /\ owner = [r \in Requests |-> "none"]
  /\ posted = <<>>
  /\ emitted = 0

\* A client as constructed: no callback is registered yet.
NoListeners ==
  /\ stateChangeListeners = <<>>
  /\ sessionUpdateListeners = <<>>

\* The client as the chat view uses it: callbacks that only forward the value.
Init == InitCommon /\ NoListeners /\ reactive = FALSE

\* A client whose first callback disposes the client on "error".
InitReactive == InitCommon /\ NoListeners /\ reactive = TRUE

\* The client is set up before it is used, as the chat view's constructor
\* does: its callbacks are registered, first callback 1 and then callback 2,
\* and operations and events follow once both sets hold both callbacks.
Ready ==
  /\ Len(stateChangeListeners) = Cardinality(StateSubs)
  /\ Len(sessionUpdateListeners) = Cardinality(UpdSubs)

Setup ==
  /\ ~Ready
  /\ \/ \E cb \in StateSubs :
          cb = Len(stateChangeListeners) + 1 /\ SetOnStateChange(cb)
     \/ \E cb \in StateSubs : Unsubscribe(cb)
     \/ \E cb \in UpdSubs :
          cb = Len(sessionUpdateListeners) + 1 /\ SetOnSessionUpdate(cb)

NextLifecycle ==
  \/ Setup
  \/ Ready /\ Connect
  \/ Ready /\ \E p \in Calls : ProcessExit(p)
  \/ Ready /\ \E p \in Calls : ProcessError(p)
  \/ Ready /\ \E c \in Calls : HandshakeResolve(c)
  \/ Ready /\ \E c \in Calls : HandshakeReject(c)
  \/ Ready /\ Dispose
  \/ Ready /\ SetAgent

NextSession ==
  \/ Ready /\ NewSession
  \/ Ready /\ \E r \in Requests : NewSessionResolve(r)
  \/ Ready /\ \E r \in Requests : NewSessionReject(r)
  \/ Ready /\ \E p \in Calls : SessionUpdate(p)

Next == NextLifecycle \/ NextSession

NextSessionOps ==
  \/ Ready /\ NewSession
  \/ Ready /\ \E r \in Requests : NewSessionResolve(r)
  \/ Ready /\ \E m \in Ids : SetMode(m)
  \/ Ready /\ \E m \in Ids : SetModel(m)
  \/ Ready /\ SendMessage
  \/ Ready /\ Cancel
  \/ Ready /\ \E q \in pending : SetResolve(q)
  \/ Ready /\ \E q \in pending : SetReject(q)

\* The client with session creation and the agent's notifications.
Spec == Init /\ [][Next]_vars

\* The client with the operations on a session: newSession, setMode,
\* setModel, sendMessage and cancel, without notifications from the agent.
SpecSession == Init /\ [][NextLifecycle \/ NextSessionOps]_vars

\* The chat view as constructed: its callbacks are the only ones registered.
InitView ==
  /\ InitCommon
  /\ reactive = FALSE
  /\ stateChangeListeners = <<1>>
  /\ sessionUpdateListeners = <<1>>

NextView ==
  \/ UserMessage
  \/ NewChat
  \/ \E c \in Calls : ViewHandshakeResolve(c)
  \/ \E c \in Calls : ViewHandshakeReject(c)
  \/ \E p \in Calls : ViewProcessError(p)
  \/ \E p \in Calls : ViewProcessExit(p)
  \/ \E r \in Requests : ViewNewSessionResolve(r)
  \/ \E r \in Requests : ViewNewSessionReject(r)
  \/ \E t \in Turns : PromptResolve(t)
  \/ \E t \in Turns : PromptReject(t)
  \/ \E p \in Calls : TextChunk(p)

\* The chat view driving the client: user messages and new chats, with the
\* agent's answers, text chunks and process events.
SpecView == InitView /\ [][NextView]_vars

\* The diagnostic classifier of the chat view alone, fed up to MaxChunks
\* chunks; no prompt is sent meanwhile.
SpecDiagnostic == Init /\ [][Stderr]_vars

\* The permission resolver alone: it reads and writes no field of the client.
SpecPermission == Init /\ [][RequestPermission]_vars

\* The client without session operations: no session handler writes state,
\* process, connection, proc or call, and no lifecycle handler reads a
\* session field.
SpecLifecycle == Init /\ [][NextLifecycle]_vars

\* The same, with callback 1 disposing the client on "error".
SpecReactive == InitReactive /\ [][NextLifecycle]_vars

Active == {"connecting", "connected"}

\* C1: a connect() invoked while the state is connecting or connected fails
\* with "Already connected or connecting", spawns no process, notifies no
\* state-change callback and leaves state, process and connection unchanged.
C1_AlreadyActive ==
  [][(state \in Active /\ lastOp'.op = "connect")
       => /\ lastOp'.result = "AlreadyActive"
          /\ UNCHANGED <<state, process, connection, proc, call>>
          /\ \A cb \in StateSubs : stepSeen'[cb] = <<>>]_vars

\* A connect() has just been refused during a handshake.
C1_Witness ==
  /\ lastOp = Op("connect", 0, "AlreadyActive")
  /\ state = "connecting"
  /\ process # Null

\* C2: a callback registered on a disconnected client is told exactly
\* connecting, connected during a connect() that succeeds and exactly
\* connecting, error during one that fails, and no callback is ever told the
\* same value twice in a row.
C2_ObservedSequence ==
  /\ [][\A cb \in StateSubs :
          LET c == watch[cb].call
              log == watch[cb].log \o stepSeen'[cb]
          IN (c # 0 /\ watch[cb].start = "disconnected" /\ call[c] = "awaiting")
               => /\ call'[c] = "returned" => log = <<"connecting", "connected">>
                  /\ call'[c] = "failed" => log = <<"connecting", "error">>]_vars
  /\ [](repeated = {})

\* C3: a non-null connection implies that the state is connected.
C3_ConnectionImpliesConnected == connection # Null => state = "connected"

\* C4: the process handle is null exactly when the state is disconnected.
C4_ProcessNullIffDisconnected == (process = Null) <=> (state = "disconnected")

\* An event of process p, or the settling of its handshake, has just run.
EventOf(p) ==
  /\ lastOp'.op \in {"exit", "error", "handshakeResolve", "handshakeReject"}
  /\ lastOp'.id = p

\* C5: after dispose() a later connect() can succeed: no event of the process
\* dispose() terminated (its exit, its error, its pending handshake) resets
\* the state, process or connection of the newer connect(), and when the new
\* process answers the handshake the connect() ends connected, holding the
\* new process and its connection.
C5_ConnectAfterDispose ==
  [][/\ \A p \in Calls :
          (EventOf(p) /\ proc[p] = "killed" /\ process # Null /\ process # p)
            => UNCHANGED <<state, process, connection>>
     /\ \A c \in Calls :
          (/\ lastOp'.op = "handshakeResolve" /\ lastOp'.id = c
           /\ proc[c] = "running"
           /\ \E p \in Calls : p < c /\ proc[p] = "killed")
            => state' = "connected" /\ process' = c /\ connection' = c]_vars

\* The fields dispose() clears.
Cleared ==
  /\ state = "disconnected"
  /\ process = Null
  /\ connection = Null
  /\ currentSessionId = NoSession
  /\ sessionMetadata = NoMetadata
  /\ pendingCommands = Null

\* C6: dispose() always succeeds; it terminates the process held, if any, and
\* leaves the state disconnected with process, connection, session id,
\* metadata and pending commands null; a second dispose() right after changes
\* nothing and notifies no state-change callback.
C6_DisposeIdempotent ==
  [][lastOp'.op = "dispose"
       => /\ Cleared'
          /\ lastOp'.result \in {"ok", "again"}
          /\ process # Null => proc'[process] # "running"
          /\ lastOp.op = "dispose"
               => /\ UNCHANGED <<state, process, connection, currentSessionId,
                                 sessionMetadata, pendingCommands, proc, call>>
                  /\ \A cb \in StateSubs : stepSeen'[cb] = <<>>]_vars

\* dispose() has run twice in a row on a client that had a process and a session.
C6_Witness ==
  /\ lastOp = Op("dispose", 0, "again")
  /\ \E p \in Calls : proc[p] = "killed"
  /\ \E r \in Requests : requests[r].st = "returned"

\* C7: when an available-commands notification arrives before a newSession()
\* resolves, the metadata installed by that newSession() holds the
\* notification's commands and the pending slot is empty afterwards.  Stated
\* for a request that resolves on the connection it was sent on, in state
\* connected, with no other newSession() in flight.
C7_PendingCommandsMerged ==
  [][\A r \in Requests :
       (/\ requests[r].st = "awaiting" /\ requests'[r].st = "returned"
        /\ requests[r].cmds # Null
        /\ state = "connected" /\ connection = requests[r].conn
        /\ \A q \in Requests \ {r} : requests[q].st # "awaiting")
         => /\ sessionMetadata'.commands = requests[r].cmds
            /\ pendingCommands' = Null]_vars

\* C8: a notification is delivered to every registered session-update
\* callback, also when one of them raises, and the error is not passed on to
\* the agent.
C8_AllSubscribersReceive ==
  lastOp.op = "sessionUpdate"
    => updDelivered = Range(sessionUpdateListeners) /\ ~updRaised

\* C9: every handler tells every registered state-change callback exactly the
\* values the state took, in the order it took them.
C9_NotifiedInOrder ==
  \A cb \in Range(stateChangeListeners) : stepSeen[cb] = stepTrans

\* C10: the exit of a process, with any exit code and in any state, leaves the
\* state disconnected with process and connection null, and passes through
\* no "error" state.
C10_ExitDisconnects ==
  [][lastOp'.op = "exit"
       => /\ state' = "disconnected"
          /\ process' = Null
          /\ connection' = Null
          /\ "error" \notin Range(stepTrans')
          /\ \A cb \in StateSubs : "error" \notin Range(stepSeen'[cb])]_vars

\* A process has just exited with a non-zero code while its handshake was pending.
C10_Witness ==
  /\ lastOp.op = "exit"
  /\ lastOp.result = "crashed"
  /\ call[lastOp.id] = "awaiting"
  /\ state = "disconnected"

\* C11: when the process of a connect() that is still waiting for the
\* handshake signals an error, that connect() fails in the same turn with the
\* error raised to its caller and the state error, without passing through
\* connected; no connect() stays pending once its process has signalled an
\* error, and a connect() that has failed never completes afterwards.
C11_SpawnErrorFailsConnect ==
  /\ [][\A p \in Calls :
          /\ (lastOp'.op = "error" /\ lastOp'.id = p /\ call[p] = "awaiting")
               => /\ call'[p] = "failed"
                  /\ lastOp'.result = "raised"
                  /\ state' = "error"
                  /\ "connected" \notin Range(stepTrans')
          /\ call[p] = "failed" => call'[p] = "failed"]_vars
  /\ [](\A p \in errored : call[p] # "awaiting")

\* The process of a pending connect() has just signalled an error.
C11_Witness ==
  /\ lastOp.op = "error"
  /\ lastOp.result = "raised"
  /\ call[lastOp.id] = "failed"
  /\ state = "error"

\* C12: at no point are two connect() invocations both past the precondition
\* checks and both not yet returned or failed.
C12_ConnectSerialized ==
  Cardinality({c \in Calls : call[c] = "awaiting"}) <= 1

\* C13: a newSession() invoked while the state is not connected fails with
\* "Not connected", sends no request and leaves the session id, the metadata
\* and the pending commands unchanged.
C13_NewSessionRequiresConnected ==
  [][(state # "connected" /\ lastOp'.op = "newSession")
       => /\ lastOp'.result = "NotConnected"
          /\ UNCHANGED <<requests, currentSessionId, sessionMetadata, pendingCommands>>]_vars

\* The method `op` has just been invoked (and has not merely been answered).
Invoked(op) ==
  /\ lastOp'.op = op
  /\ lastOp'.result \in {"NoActiveSession", "returned", "awaiting"}

\* C14: setMode, setModel and sendMessage invoked while the state is not
\* connected, or while no session id is held (none installed since the last
\* dispose()), fail with "No active session", send no request and leave the
\* metadata unchanged.
C14_SessionOpsRequireSession ==
  [][\A op \in {"setMode", "setModel", "sendMessage"} :
       (Invoked(op) /\ (state # "connected" \/ currentSessionId = NoSession))
         => /\ lastOp'.result = "NoActiveSession"
            /\ sent' = NoRequest
            /\ UNCHANGED <<sessionMetadata, pending>>]_vars

\* C15: cancel() invoked without a connection or without a session id
\* returns normally, sends no request and changes no field of the client.
C15_CancelWithoutSession ==
  [][(Invoked("cancel") /\ (connection = Null \/ currentSessionId = NoSession))
       => /\ lastOp'.result = "returned"
          /\ sent' = NoRequest
          /\ UNCHANGED <<state, process, connection, currentSessionId,
                         sessionMetadata, pendingCommands, proc, call,
                         requests, pending>>
          /\ \A cb \in StateSubs : stepSeen'[cb] = <<>>]_vars

\* cancel() has just returned on a connected client that has no session.
C15_Witness ==
  /\ lastOp = Op("cancel", 0, "returned")
  /\ state = "connected"
  /\ connection # Null
  /\ currentSessionId = NoSession

\* C16: when a setMode(m) completes successfully the metadata reports m as
\* the current mode id, and likewise setModel, also for a session created
\* without mode or model state.  Stated for a request that completes in
\* state connected while the session it was sent for is the current one.
C16_SetModeRoundTrip ==
  [][\A q \in pending :
       (/\ q \notin pending' /\ lastOp'.result = "ok"
        /\ state = "connected" /\ currentSessionId = q.session
        /\ connection = q.session.agent)
         => /\ sessionMetadata'.exists
            /\ q.kind = "setMode" => sessionMetadata'.modes = q.id
            /\ q.kind = "setModel" => sessionMetadata'.models = q.id]_vars

AllowKinds == {"allow_once", "allow_always"}

\* C18: the response to a permission request selects the option id of the
\* first option, in list order, whose kind is allow_once or allow_always, and
\* is the cancelled outcome when the list holds no such option; the response
\* is there as soon as the request has been handled.
C18_FirstAllowSelected ==
  LET L == permission.options
      allowed == {i \in 1..Len(L) : L[i].kind \in AllowKinds}
  IN /\ permission.response.outcome = "none" => L = <<>>
     /\ allowed = {} /\ L # <<>> => permission.response = [outcome |-> "cancelled", optionId |-> Null]
     /\ \A i \in allowed :
          (\A j \in allowed : i <= j)
            => permission.response = [outcome |-> "selected", optionId |-> L[i].optionId]

\* A request whose first allow option is a standing allow in second place,
\* ahead of a one-time allow with another id.
C18_Witness ==
  /\ Len(permission.options) = 3
  /\ permission.options[1].kind = "reject_once"
  /\ permission.options[2] = [kind |-> "allow_always", optionId |-> 2]
  /\ permission.options[3] = [kind |-> "allow_once", optionId |-> 1]
  /\ permission.response = [outcome |-> "selected", optionId |-> 2]

\* Whether s is the text of the trailing length(s) characters of b.
IsTail(s, b) ==
  \/ s = <<>>
  \/ \E k \in 1..Len(b) :
       LET after == SubSeq(b, k + 1, Len(b))
           m == length(s) - length(after)
       IN m \in 1..b[k].n /\ s = <<[c |-> b[k].c, n |-> m]>> \o after

\* C19: after every diagnostic chunk the buffer holds at most 10,000
\* characters, and when the buffer with the chunk appended is longer than
\* that and holds no error signal, the buffer is exactly its trailing 5,000
\* characters.
C19_BufferBounded ==
  /\ length(stderrBuffer) <= 10000
  /\ (length(diagnostic.appended) > 10000 /\ diagnostic.posted = <<>>)
       => /\ length(stderrBuffer) = 5000
          /\ IsTail(stderrBuffer, diagnostic.appended)

\* A buffer of 10,004 characters has just been cut in the middle of "FooError:".
C19_Witness ==
  /\ length(diagnostic.appended) = 10004
  /\ diagnostic.posted = <<>>
  /\ stderrBuffer = Str(<<"r", "r", "o", "r", ":">>) \o Fill(4994) \o Str(<<"}">>)

\* The places where text b has the shape <Name>Error: ... data: {...}:
\* <<s, e, o, c>> with one or more word characters from s on, then "Error"
\* ending at e, a colon, then white space, at most one word and white space,
\* then "data:", white space, an opening brace at o, one or more characters
\* other than a closing brace, and a closing brace at c.
Shapes(b) ==
  LET n == Len(b)
      spaces(i, j) == \A k \in i..j : b[k].c \in WhiteSpace
      words(i, j) == \A k \in i..j : b[k].c \notin (WhiteSpace \cup Punctuation)
      gap(i, j) == \E u \in i..(j + 1), v \in i..(j + 1) :
                      u <= v /\ spaces(i, u - 1) /\ words(u, v - 1) /\ spaces(v, j)
  IN UNION { UNION { { <<s, e, o, c>> :
                         s \in {s \in 1..(e - 5) : words(s, e - 5)},
                         o \in {o \in (d + 5)..n : b[o].c = "{" /\ spaces(d + 5, o - 1)},
                         c \in {c \in (d + 7)..n : b[c].c = "}"} }
                     : d \in {d \in (e + 2)..n : at(b, d, DataLit) /\ b[e + 1].c = ":"
                                                   /\ gap(e + 2, d - 1)} }
             : e \in {e \in 6..n : at(b, e - 4, ErrorLit)} }

\* The shapes that are well formed: the closing brace is the first one behind
\* the opening brace and not right behind it.
Blocks(b) ==
  {x \in Shapes(b) : x[4] > x[3] + 1 /\ \A k \in (x[3] + 1)..(x[4] - 1) : b[k].c # "}"}

\* The values of the field `lit` in a data block: <<i, q, r>> with the name
\* at i, white space, a quote at q, one or more characters other than a
\* quote, and a quote at r.
Fields(data, lit) ==
  {x \in (1..Len(data)) \X (1..Len(data)) \X (1..Len(data)) :
     /\ at(data, x[1], lit)
     /\ x[2] >= x[1] + Len(lit)
     /\ \A k \in (x[1] + Len(lit))..(x[2] - 1) : data[k].c \in WhiteSpace
     /\ data[x[2]].c = "\""
     /\ x[3] > x[2] + 1
     /\ data[x[3]].c = "\""
     /\ \A k \in (x[2] + 1)..(x[3] - 1) : data[k].c # "\""}

\* The text the signal of a block has.
Signal(b, x) ==
  LET data == SubSeq(b, x[3] + 1, x[4] - 1)
      providers == Fields(data, ProviderLit)
      models == Fields(data, ModelLit)
      first(F) == CHOOSE f \in F : \A g \in F : f[1] <= g[1]
      value(F) == SubSeq(data, first(F)[2] + 1, first(F)[3] - 1)
  IN IF providers # {} /\ models # {}
     THEN Str(ModelNotFoundLit) \o value(providers) \o Str(<<"/">>) \o value(models)
     ELSE Str(AgentErrorLit) \o SubSeq(b, x[1], x[2])

\* C20: when the buffer with the chunk appended has the shape
\* <Name>Error: ... data: {...}, the classifier posts exactly one signal, with
\* the text "Model not found: <provider>/<model>" when the data block of the
\* leftmost such place holds a providerID and a modelID field and
\* "Agent error: <ErrorType>" otherwise, and the buffer is empty afterwards;
\* when it has not, nothing is posted and the buffer is the appended text,
\* cut to its trailing 5,000 characters when longer than 10,000.
C20_SignalClassified ==
  LET b == diagnostic.appended
      leftmost == {x \in Blocks(b) : \A y \in Blocks(b) : x[1] <= y[1]}
  IN diagnostic.n > 0
       => IF Blocks(b) # {}
          THEN /\ Len(diagnostic.posted) = 1
               /\ \A x \in leftmost : diagnostic.posted[1] = Signal(b, x)
               /\ stderrBuffer = <<>>
          ELSE /\ diagnostic.posted = <<>>
               /\ IF length(b) > 10000
                  THEN length(stderrBuffer) = 5000 /\ IsTail(stderrBuffer, b)
                  ELSE stderrBuffer = b

\* The chunks FooError: / newline data: { / providerID: "a" / , modelID: "x"}
\* have just been classified.
C20_Witness ==
  /\ diagnostic.n = 4
  /\ diagnostic.posted = <<Str(ModelNotFoundLit) \o Str(<<"a", "/", "x">>)>>
  /\ length(diagnostic.appended) = 48
  /\ stderrBuffer = <<>>

\* C17: every text chunk is delivered to every session-update callback once,
\* in the order the agent emitted the chunks, the chat view posts one
\* streamChunk event for it, and when a prompt completes the accumulator
\* holds exactly the chunks that arrived while the prompt was pending, in
\* order.
C17_ChunksAccumulated ==
  [][/\ lastOp'.op = "sessionUpdate"
          => /\ lastOp'.id = emitted + 1
             /\ updDelivered' = Range(sessionUpdateListeners)
             /\ posted' = <<Message("streamChunk", <<emitted + 1>>)>>
     /\ \A t \in Turns :
          (lastOp'.op = "promptResolve" /\ lastOp'.id = t)
            => turns'[t].html = turns[t].heard]_vars

\* C21: no setMode or setModel request is pending while a newSession request
\* is pending, and the update a completed setMode or setModel makes to the
\* cached current id is applied only while the current session is the one
\* whose id the request carried.
C21_SessionOpsSerialized ==
  /\ [](\A q \in pending : \A r \in Requests : requests[r].st # "awaiting")
  /\ [][\A q \in pending :
          (q \notin pending' /\ sessionMetadata' # sessionMetadata)
            => currentSessionId = q.session]_vars

\* C22: every prompt, set-mode, set-model or cancel request that is sent
\* carries a session id that a newSession answered by the agent process of
\* the connection it is sent on returned, and that process is running.
C22_SessionOfRunningProcess ==
  sent # NoRequest =>
    /\ sent.session.agent = connection
    /\ proc[connection] = "running"

\* C23: once dispose() has returned, a step that is not a new connect() (the
\* settling of a connect() or newSession() that was in flight included)
\* leaves the state disconnected and the session id and metadata null.
C23_DisposedStaysCleared ==
  [][(lastOp.op = "dispose" /\ lastOp'.op # "connect")
       => /\ state' = "disconnected"
          /\ currentSessionId' = NoSession
          /\ sessionMetadata' = NoMetadata]_vars

\* C24: at most one agent process is running at any time, and a running
\* process is the one the client holds: none is dropped from the handle
\* without having exited or been killed.
C24_SingleProcess ==
  /\ Cardinality({p \in Calls : proc[p] = "running"}) <= 1
  /\ \A p \in Calls : proc[p] = "running" => process = p

\* C25: when setAgent(config) returns, whatever the state it was called in,
\* the state is disconnected and the process, the connection, the session
\* id, the session metadata and the pending commands are null.
C25_SetAgentClears ==
  [][lastOp'.op = "setAgent" => Cleared']_vars

====
